---- MODULE Spec2Model ----
(***************************************************************************)
(* Build-job orchestrator of backend/services/agent_builder.py.            *)
(*                                                                         *)
(* Every job is driven by one asyncio task (_run_agent).  asyncio runs one *)
(* task at a time and switches tasks only at an await that suspends, so    *)
(* each action below is the code a task executes between two suspension    *)
(* points.  The state between two actions is therefore exactly a state a   *)
(* reader (status endpoint, stream generator) or another job can observe.  *)
(* _push_via_composio contains no await that suspends (the Composio client *)
(* is called synchronously), so the whole managed-automation attempt is    *)
(* part of the action that resumes after change collection.                *)
(***************************************************************************)
EXTENDS Integers, Sequences, FiniteSets, TLC

\* ---------------------------------------------------------------- bounds
MaxJobs == 2        \* jobs created by start_build
MaxAgentMsgs == 1   \* messages the agent stream yields per job
MaxFiles == 1       \* files of the workspace the agent may change
MaxIssues == 1      \* issue numbers a build may be requested for
MaxReaders == 1     \* streams a client opens
MaxStreamJobs == 1  \* jobs created while clients are querying
MaxLeftover == 2    \* files with uncommitted changes left in the workspace
MaxSoloMsgs == 2    \* messages the agent stream yields to a job that runs alone
MaxListed == 2      \* paths git lists to a call of the change collector

JobIds == 1..MaxJobs
Paths == 1..MaxFiles
Issues == 1..MaxIssues
Readers == 1..MaxReaders
WorkPaths == 1..MaxFiles \cup 1..MaxLeftover   \* the paths of the working copy

VARIABLES
    COMPOSIO_API_KEY,   \* TRUE iff the managed-automation credential is set
    USE_COMPOSIO,       \* module flag: the managed-automation client is usable
    GITHUB_PAT,         \* TRUE iff the direct-API credential is set
    _jobs,              \* registry: build_id -> BuildJob
    pc,                 \* per job task: the await it is suspended at
    full_text,          \* local of _run_agent: accumulated narrative text
    nmsg,               \* messages consumed from the agent stream so far
    upserts,            \* local of _run_agent: the collected change set
    fileIdx,            \* _commit_files_api: index of the file being upserted
    wsState,            \* working copy on disk: absent | cloning | ready |
                        \*   diverged (its main cannot be fast-forwarded)
    cloner,             \* job whose git clone created the directory (0: none)
    dirty,              \* files of the working copy that differ from HEAD
    kinds,              \* what each path of the working copy is on disk
    wrote,              \* history: per job, the files its agent has written
    calls,              \* history: components and remote calls invoked by the
                        \*   task, and their normal returns, in order
    responses,          \* history: what the Composio client gave back, in order
    raised,             \* history: message of the exception the handler caught
    stream,             \* per reader: its event_generator (position, cursor)
                        \*   and, as history, the events it has yielded
    reply,              \* the last answer of a query endpoint
    collector           \* a call of _collect_changed_files taken alone: what
                        \*   git lists, what the files are, what it returns

vars == <<COMPOSIO_API_KEY, USE_COMPOSIO, GITHUB_PAT, _jobs, pc, full_text,
          nmsg, upserts, fileIdx, wsState, cloner, dirty, kinds, wrote,
          calls, responses, raised, stream, reply, collector>>

\* ------------------------------------------------------------ data model
\* Strings are modelled as tuples of their parts, so that an f-string is the
\* concatenation of its literal and interpolated parts; None is the empty
\* tuple, the empty string is <<"">>.
None == << >>

\* the paths of a change set, as text
PathNames(upserts_) == [i \in 1..Len(upserts_) |-> ToString(upserts_[i])]

\* dataclass BuildJob: a freshly constructed job, its other fields at their
\* defaults.  created_at is the time of construction, counted in jobs created
\* before.  writes is a history field: every attribute assignment made to the
\* job, in order.
BuildJob(build_id, issue_number, created_at) ==
    [build_id |-> build_id, issue_number |-> issue_number,
     status |-> "queued", logs |-> << >>, pr_url |-> None, error |-> None,
     created_at |-> created_at, writes |-> << >>]

\* what the /build handler answers
BuildStartResponse(job) == [build_id |-> job.build_id, status |-> job.status]

\* job.<field> = value (the history notes the length of the log at that time)
SetAttr(job, field, value) ==
    [job EXCEPT ![field] = value,
                !.writes = Append(@, [field |-> field, value |-> value,
                                      at |-> Len(job.logs)])]

\* _log as a bounded log would be: beyond eight entries the oldest is dropped
_log_capped(job, log_type, message) ==
    [job EXCEPT !.logs = Append(IF Len(@) >= 8 THEN Tail(@) ELSE @,
                                [type |-> log_type, message |-> message])]

\* _log: append one entry to job.logs
_log(job, log_type, message) ==
    [job EXCEPT !.logs = Append(@, [type |-> log_type, message |-> message])]

Terminal == {"completed", "failed"}

\* Outcome of a stretch of _run_agent between two suspension points: the job
\* record as written, the await reached ("done": the task has ended), the
\* calls made, the Composio results received and the exception that reached
\* the handler (None: none).
Outcome(job, at, issued, got, exc) ==
    [job |-> job, pc |-> at, calls |-> issued, responses |-> got, raised |-> exc]

\* the handler without its first line: error and log entry, status left as is
ExcHandler_keepsStatus(job, exc) ==
    _log(SetAttr(job, "error", exc), "error", <<"Build failed: ">> \o exc)

\* the handler of _run_agent: except Exception as exc
ExcHandler(job, exc) ==
    _log(SetAttr(SetAttr(job, "status", "failed"), "error", exc),
         "error", <<"Build failed: ">> \o exc)

\* USE_COMPOSIO as set when the module is loaded: the key is set and the
\* client could be imported and constructed
UseComposio(api_key, client_ok) == api_key /\ client_ok

\* ------------------------------------------------- managed automation

\* What composio_client.tools.execute can give back: it raises (transport or
\* client error), or it returns the response envelope; html_url says whether
\* the envelope's data carries the key html_url at its top level.  effect
\* says whether the remote carried the action out, which the program cannot
\* read: a call may raise after the remote has acted (the answer is lost or
\* cannot be read).
ComposioResults ==
    { [raises |-> TRUE,  successful |-> FALSE, error |-> FALSE, html_url |-> FALSE,
       effect |-> FALSE],
      [raises |-> TRUE,  successful |-> FALSE, error |-> FALSE, html_url |-> FALSE,
       effect |-> TRUE],
      [raises |-> FALSE, successful |-> TRUE,  error |-> FALSE, html_url |-> TRUE,
       effect |-> TRUE],
      [raises |-> FALSE, successful |-> TRUE,  error |-> FALSE, html_url |-> FALSE,
       effect |-> TRUE],
      [raises |-> FALSE, successful |-> FALSE, error |-> TRUE,  html_url |-> FALSE,
       effect |-> FALSE],
      [raises |-> FALSE, successful |-> FALSE, error |-> FALSE, html_url |-> FALSE,
       effect |-> FALSE] }

\* the results of the commit call: its data is not read, it carries no
\* html_url; whether a commit call that raised took effect is not followed
CommitResults == { r \in ComposioResults : ~r.html_url /\ (r.raises => ~r.effect) }

\* _composio_exec: raises when the client raises or the envelope has a truthy
\* "error"; otherwise returns the data ("successful" is not looked at).
_composio_exec(slug, result) ==
    IF result.raises
    THEN [raised |-> TRUE, exc |-> <<"composio client error">>, data |-> result]
    ELSE IF result.error
         THEN [raised |-> TRUE,
               exc |-> <<"Composio ", slug, " failed: ", "error text">>,
               data |-> result]
         ELSE [raised |-> FALSE, exc |-> None, data |-> result]

PullsPage == <<"https://github.com/OWNER/REPO/pulls">>
HtmlUrl == <<"html_url of the pull request">>

\* pr_data.get("html_url"): no default
PrUrlOf_nodefault(pr_data) == IF pr_data.html_url THEN HtmlUrl ELSE None

\* pr_data.get("html_url", f"https://github.com/{OWNER}/{REPO}/pulls")
PrUrlOf(pr_data) == IF pr_data.html_url THEN HtmlUrl ELSE PullsPage

\* the end of a strategy announcing the pull request in a status entry
PushEnd_statusEntry(job, pr_data) ==
    _log(SetAttr(SetAttr(job, "pr_url", PrUrlOf(pr_data)), "status", "completed"),
         "status", <<"Pull request created: ">> \o PrUrlOf(pr_data))

\* the last three lines of either strategy: pr_url, status, the result entry
PushEnd(job, pr_data) ==
    _log(SetAttr(SetAttr(job, "pr_url", PrUrlOf(pr_data)), "status", "completed"),
         "result", <<"Pull request created: ">> \o PrUrlOf(pr_data))

\* _push_via_composio marking the job completed before the pull request is
\* requested
_push_via_composio_early(job, upserts_, commit_result, pr_result) ==
    LET job1 == _log(job, "status", <<"Creating branch and committing ",
                                       ToString(Len(upserts_)), " file(s)...">>)
        c == _composio_exec("GITHUB_COMMIT_MULTIPLE_FILES", commit_result)
        job2 == SetAttr(_log(job1, "status", <<"Creating pull request...">>),
                        "status", "completed")
        p == _composio_exec("GITHUB_CREATE_A_PULL_REQUEST", pr_result)
    IN  IF c.raised
        THEN [job |-> job1, raised |-> TRUE, exc |-> c.exc,
              calls |-> <<"_push_via_composio", "GITHUB_COMMIT_MULTIPLE_FILES">>,
              responses |-> <<commit_result>>]
        ELSE IF p.raised
        THEN [job |-> job2, raised |-> TRUE, exc |-> p.exc,
              calls |-> <<"_push_via_composio", "GITHUB_COMMIT_MULTIPLE_FILES",
                          "GITHUB_CREATE_A_PULL_REQUEST">>,
              responses |-> <<commit_result, pr_result>>]
        ELSE [job |-> _log(SetAttr(job2, "pr_url", PrUrlOf(p.data)), "result",
                           <<"Pull request created: ">> \o PrUrlOf(p.data)),
              raised |-> FALSE, exc |-> None,
              calls |-> <<"_push_via_composio", "GITHUB_COMMIT_MULTIPLE_FILES",
                          "GITHUB_CREATE_A_PULL_REQUEST">>,
              responses |-> <<commit_result, pr_result>>]

\* _push_via_composio, run to its end or to the exception it raises.
\* Gives [job, raised, exc, calls, responses].
_push_via_composio(job, upserts_, commit_result, pr_result) ==
    LET job1 == _log(job, "status", <<"Creating branch and committing ",
                                       ToString(Len(upserts_)), " file(s)...">>)
        c == _composio_exec("GITHUB_COMMIT_MULTIPLE_FILES", commit_result)
        job2 == _log(job1, "status", <<"Creating pull request...">>)
        p == _composio_exec("GITHUB_CREATE_A_PULL_REQUEST", pr_result)
    IN  IF c.raised
        THEN [job |-> job1, raised |-> TRUE, exc |-> c.exc,
              calls |-> <<"_push_via_composio", "GITHUB_COMMIT_MULTIPLE_FILES">>,
              responses |-> <<commit_result>>]
        ELSE IF p.raised
        THEN [job |-> job2, raised |-> TRUE, exc |-> p.exc,
              calls |-> <<"_push_via_composio", "GITHUB_COMMIT_MULTIPLE_FILES",
                          "GITHUB_CREATE_A_PULL_REQUEST">>,
              responses |-> <<commit_result, pr_result>>]
        ELSE [job |-> PushEnd(job2, p.data), raised |-> FALSE, exc |-> None,
              calls |-> <<"_push_via_composio", "GITHUB_COMMIT_MULTIPLE_FILES",
                          "GITHUB_CREATE_A_PULL_REQUEST">>,
              responses |-> <<commit_result, pr_result>>]

\* ------------------------------------------------------- _run_agent

NoChanges == <<"Agent made no file changes">>

NoCredentials ==
    <<"No GitHub credentials available. ",
      "Configure Composio GitHub integration or set GITHUB_PAT in .env.">>

\* the RuntimeError raised when Composio failed and no GITHUB_PAT is set
ComposioFailed(e) ==
    <<"Composio failed: ">> \o e \o <<". ", "Set GITHUB_PAT in .env as a fallback.">>

\* _push_via_github_api up to its first await: the first log, then the request
\* for the tip of main is issued.
PushApiStart(job, issued, got) ==
    Outcome(_log(job, "status", <<"Getting main branch SHA via GitHub API...">>),
            "api_sha",
            issued \o <<"_push_via_github_api", "GET git/ref/heads/main">>,
            got, None)

\* Publish recording the managed attempt's exception in job.error before it
\* falls back
Publish_recordsError(job, upserts_, commit_result, pr_result, use_composio, github_pat) ==
    LET m == _push_via_composio(job, upserts_, commit_result, pr_result)
        exc == ComposioFailed(m.exc)
        fb == _log(SetAttr(m.job, "error", m.exc), "status",
                   <<"Composio failed (">> \o m.exc
                       \o <<"), trying GitHub API fallback...">>)
    IN  IF use_composio
        THEN IF ~m.raised
             THEN Outcome(m.job, "done", m.calls, m.responses, None)
             ELSE IF ~github_pat
             THEN Outcome(ExcHandler(m.job, exc), "done", m.calls, m.responses, exc)
             ELSE PushApiStart(fb, m.calls, m.responses)
        ELSE IF github_pat
             THEN PushApiStart(job, << >>, << >>)
             ELSE Outcome(ExcHandler(job, NoCredentials), "done", << >>, << >>,
                          NoCredentials)

\* Publish without the test of GITHUB_PAT before the direct strategy
Publish_noCredentialCheck(job, upserts_, commit_result, pr_result, use_composio, github_pat) ==
    LET m == _push_via_composio(job, upserts_, commit_result, pr_result)
        exc == ComposioFailed(m.exc)
        fb == _log(m.job, "status",
                   <<"Composio failed (">> \o m.exc
                       \o <<"), trying GitHub API fallback...">>)
    IN  IF use_composio
        THEN IF ~m.raised
             THEN Outcome(m.job, "done", m.calls, m.responses, None)
             ELSE IF ~github_pat
             THEN Outcome(ExcHandler(m.job, exc), "done", m.calls, m.responses, exc)
             ELSE PushApiStart(fb, m.calls, m.responses)
        ELSE PushApiStart(job, << >>, << >>)

\* Publish trying the direct strategy first whenever GITHUB_PAT is set
Publish_directFirst(job, upserts_, commit_result, pr_result, use_composio, github_pat) ==
    LET m == _push_via_composio(job, upserts_, commit_result, pr_result)
        exc == ComposioFailed(m.exc)
    IN  IF github_pat
        THEN PushApiStart(job, << >>, << >>)
        ELSE IF use_composio
             THEN IF ~m.raised
                  THEN Outcome(m.job, "done", m.calls, m.responses, None)
                  ELSE Outcome(ExcHandler(m.job, exc), "done", m.calls,
                               m.responses, exc)
             ELSE Outcome(ExcHandler(job, NoCredentials), "done", << >>, << >>,
                          NoCredentials)

\* _run_agent step 5 after status was set to "pushing": strategy selection
\* and fallback.
Publish(job, upserts_, commit_result, pr_result, use_composio, github_pat) ==
    LET m == _push_via_composio(job, upserts_, commit_result, pr_result)
        exc == ComposioFailed(m.exc)
        fb == _log(m.job, "status",
                   <<"Composio failed (">> \o m.exc
                       \o <<"), trying GitHub API fallback...">>)
    IN  IF use_composio
        THEN IF ~m.raised
             THEN Outcome(m.job, "done", m.calls, m.responses, None)
             ELSE IF ~github_pat
             THEN Outcome(ExcHandler(m.job, exc), "done", m.calls, m.responses, exc)
             ELSE PushApiStart(fb, m.calls, m.responses)
        ELSE IF github_pat
             THEN PushApiStart(job, << >>, << >>)
             ELSE Outcome(ExcHandler(job, NoCredentials), "done", << >>, << >>,
                          NoCredentials)

\* AfterCollect without the return that ends the no-changes branch
AfterCollect_noReturn(job, upserts_, commit_result, pr_result, use_composio, github_pat) ==
    Publish(SetAttr(IF upserts_ = << >>
                    THEN _log(SetAttr(SetAttr(job, "status", "failed"),
                                      "error", NoChanges),
                              "error", <<"No file changes detected - nothing to push.">>)
                    ELSE _log(job, "status",
                              <<"Found ", ToString(Len(upserts_)),
                                " changed file(s): ">> \o PathNames(upserts_)),
                    "status", "pushing"),
            upserts_, commit_result, pr_result, use_composio, github_pat)

\* _run_agent from the return of _collect_changed_files to the next await
\* (or to the end of the task).
AfterCollect(job, upserts_, commit_result, pr_result, use_composio, github_pat) ==
    IF upserts_ = << >>
    THEN Outcome(_log(SetAttr(SetAttr(job, "status", "failed"), "error", NoChanges),
                      "error", <<"No file changes detected - nothing to push.">>),
                 "done", << >>, << >>, None)
    ELSE Publish(SetAttr(_log(job, "status",
                              <<"Found ", ToString(Len(upserts_)),
                                " changed file(s): ">> \o PathNames(upserts_)),
                         "status", "pushing"),
                 upserts_, commit_result, pr_result, use_composio, github_pat)

\* _run_agent from its first line to the first await of ensure_workspace
BeforeWorkspace(job) ==
    _log(SetAttr(job, "status", "cloning"), "status", <<"Preparing workspace...">>)

\* _run_agent from the return of ensure_workspace to the first await of the
\* agent stream.
AfterWorkspace(job) ==
    _log(SetAttr(_log(job, "status",
                      <<"Workspace ready at ", "/tmp/agent-workspace/REPO">>),
                 "status", "running"),
         "status", <<"Agent started - implementing issue...">>)

\* What the agent stream yields: a StreamEvent carrying a text delta or some
\* other event, or an AssistantMessage with a tool_use block, a text block or
\* a text block of white space only.  The tool it announces may write files
\* of the working copy (writes: their paths; leaves: what these paths are on
\* disk afterwards).
AgentMessages ==
    [kind : {"text_delta", "other_event", "text", "blank_text"}, writes : {{}},
     leaves : {"text"}]
        \cup [kind : {"tool_use"}, writes : SUBSET Paths, leaves : {"text"}]

\* the loop body logging text deltas only, not the text blocks
OnMessage_deltasOnly(job, m) ==
    CASE m.kind = "text_delta" -> _log(job, "agent_text", <<"text">>)
      [] m.kind = "tool_use"   -> _log(job, "tool_use",
                                       <<"Using tool: ", "name", " - ", "input">>)
      [] OTHER                 -> job

\* body of the async for loop: the job after one message
OnMessage(job, m) ==
    CASE m.kind = "text_delta" -> _log(job, "agent_text", <<"text">>)
      [] m.kind = "text"       -> _log(job, "agent_text", <<"text">>)
      [] m.kind = "tool_use"   -> _log(job, "tool_use",
                                       <<"Using tool: ", "name", " - ", "input">>)
      [] OTHER                 -> job

\* full_text after one message
OnMessageText(text, m) ==
    CASE m.kind = "text_delta" -> Append(text, "text")
      [] m.kind = "text"       -> Append(text, "text")
      [] m.kind = "blank_text" -> Append(text, " ")
      [] OTHER                 -> text

\* list(set(changed + untracked)): the changed files in an arbitrary order
Orderings(S) ==
    { s \in [1..Cardinality(S) -> S] : \A i, k \in 1..Cardinality(S) :
                                          i # k => s[i] # s[k] }

\* the elements of a list
Range(s) == {s[i] : i \in DOMAIN s}

\* a line of git's output that is empty
EmptyLine == 0

\* what a listed path is on disk: a regular file that reads as text, a
\* regular file that does not (UnicodeDecodeError, OSError), or no regular
\* file at all (deleted, a directory)
FileKinds == {"text", "undecodable", "not a file"}

\* the collector looping over the lines git printed, without set()
_collect_changed_files_listed(changed, untracked, kind) ==
    LET Kept(p) == p # EmptyLine /\ kind[p] = "text"
    IN  {SelectSeq(changed \o untracked, Kept)}

\* _collect_changed_files after the two git commands: the paths of the
\* change sets it can return, one per order set() may give
_collect_changed_files(changed, untracked, kind) ==
    LET Kept(p) == p # EmptyLine /\ kind[p] = "text"
    IN  {SelectSeq(all_files, Kept) : all_files \in Orderings(Range(changed \o untracked))}

\* ------------------------------------------------------ query endpoints

\* get_job answering an unknown id with an empty record instead of None
get_job_default(build_id) ==
    IF build_id \in DOMAIN _jobs
    THEN <<_jobs[build_id]>>
    ELSE <<BuildJob(build_id, 0, 0)>>

\* get_job: _jobs.get(build_id), the job as a one-element tuple or None
get_job(build_id) ==
    IF build_id \in DOMAIN _jobs THEN <<_jobs[build_id]>> ELSE None

\* HTTPException(status_code=404, detail="Build not found")
NotFound == [code |-> 404, detail |-> "Build not found"]

\* what /build/{build_id}/status answers for a job that was found: copies of
\* the job's fields (of which the model keeps the identifier and the status)
BuildStatusResponse(job) ==
    [code |-> 200, build_id |-> job.build_id, status |-> job.status]

\* body of build_status_endpoint
StatusResponse(build_id) ==
    LET job == get_job(build_id)
    IN  IF job = None THEN NotFound ELSE BuildStatusResponse(job[1])

\* what /build/{build_id}/stream answers for a job that was found
StreamingResponse == [code |-> 200, media_type |-> "text/event-stream"]

\* a reader that has opened no stream
NoStream ==
    [at |-> "none", build_id |-> 0, sent |-> 0, events |-> << >>, attached |-> 0]

\* a stream whose generator starts at the end of the log instead of at 0
OpenStream_tail(build_id, job) ==
    [at |-> "open", build_id |-> build_id, sent |-> Len(job.logs),
     events |-> << >>, attached |-> Len(job.logs)]

\* event_generator() as handed to StreamingResponse, not yet started; sent = 0
\* is its first statement.  attached is a history field: the length of the
\* log when the stream was opened.
OpenStream(build_id, job) ==
    [at |-> "open", build_id |-> build_id, sent |-> 0, events |-> << >>,
     attached |-> Len(job.logs)]

\* the events of a stream: a log entry with its index in the log, or done
EntryEvent(job, sent_) == [index |-> sent_, data |-> job.logs[sent_ + 1]]
DoneEvent(job) ==
    [index |-> -1,
     data |-> [type |-> "done", status |-> job.status, pr_url |-> job.pr_url,
               error |-> job.error]]

\* event_generator looking at job.status without first draining the log
event_generator_statusFirst(job, st) ==
    LET sent1 == IF st.at = "yield" THEN st.sent + 1 ELSE st.sent
    IN  IF st.at = "yield_done"
        THEN [st EXCEPT !.at = "closed"]
        ELSE IF job.status \in Terminal
        THEN [st EXCEPT !.at = "yield_done", !.sent = sent1,
                        !.events = Append(@, DoneEvent(job))]
        ELSE IF sent1 < Len(job.logs)
        THEN [st EXCEPT !.at = "yield", !.sent = sent1,
                        !.events = Append(@, EntryEvent(job, sent1))]
        ELSE [st EXCEPT !.at = "sleep", !.sent = sent1]

\* event_generator resumed where it is suspended (not yet started, at the
\* yield of an entry, in asyncio.sleep, at the yield of done) and run to its
\* next suspension or to its return.
event_generator(job, st) ==
    LET sent1 == IF st.at = "yield" THEN st.sent + 1 ELSE st.sent
    IN  IF st.at = "yield_done"
        THEN [st EXCEPT !.at = "closed"]
        ELSE IF sent1 < Len(job.logs)
        THEN [st EXCEPT !.at = "yield", !.sent = sent1,
                        !.events = Append(@, EntryEvent(job, sent1))]
        ELSE IF job.status \in Terminal
        THEN [st EXCEPT !.at = "yield_done", !.sent = sent1,
                        !.events = Append(@, DoneEvent(job))]
        ELSE [st EXCEPT !.at = "sleep", !.sent = sent1]

\* ------------------------------------------------------------- actions

\* The module has been imported; nothing is said about the files of the
\* working copy.
Boot ==
    /\ COMPOSIO_API_KEY \in BOOLEAN
    /\ \E client_ok \in BOOLEAN : USE_COMPOSIO = UseComposio(COMPOSIO_API_KEY, client_ok)
    /\ GITHUB_PAT \in BOOLEAN
    /\ _jobs = << >>
    /\ pc = [j \in JobIds |-> "unborn"]
    /\ full_text = [j \in JobIds |-> << >>]
    /\ nmsg = [j \in JobIds |-> 0]
    /\ upserts = [j \in JobIds |-> << >>]
    /\ fileIdx = [j \in JobIds |-> 0]
    /\ wsState \in {"absent", "ready", "diverged"}
    /\ cloner = 0
    /\ kinds = [p \in WorkPaths |-> "text"]
    /\ wrote = [j \in JobIds |-> {}]
    /\ calls = [j \in JobIds |-> << >>]
    /\ responses = [j \in JobIds |-> << >>]
    /\ raised = [j \in JobIds |-> None]
    /\ stream = [r \in Readers |-> NoStream]
    /\ reply = None

\* no call of the collector is looked at alone
NoCall == [at |-> "idle", changed |-> << >>, untracked |-> << >>, kind |-> << >>,
           upserts |-> << >>]

\* The process starts on a working copy without uncommitted changes.
Init == Boot /\ dirty = {} /\ collector = NoCall

\* /tmp/agent-workspace outlives the process: the process starts on a working
\* copy that holds the uncommitted changes of earlier runs.
LeftoverPaths == 1..MaxLeftover

LeftoverInit ==
    /\ Boot
    /\ dirty \in SUBSET LeftoverPaths
    /\ wsState = "absent" => dirty = {}
    /\ collector = NoCall

\* The task of job j takes the step that gives outcome o.
Step(j, o) ==
    /\ _jobs' = [_jobs EXCEPT ![j] = o.job]
    /\ pc' = [pc EXCEPT ![j] = o.pc]
    /\ calls' = [calls EXCEPT ![j] = @ \o o.calls]
    /\ responses' = [responses EXCEPT ![j] = @ \o o.responses]
    /\ raised' = [raised EXCEPT ![j] = o.raised]

\* A step of _run_agent raises exc and no handler catches it: the task ends
\* with the exception, the job left as it is.
Raise_unhandled(j, exc) ==
    Step(j, Outcome(_jobs[j], "done", << >>, << >>, exc))

\* A step of _run_agent raises exc: the handler runs and the task ends.
Raise(j, exc) ==
    Step(j, Outcome(ExcHandler(_jobs[j], exc), "done", << >>, << >>, exc))

config == <<COMPOSIO_API_KEY, USE_COMPOSIO, GITHUB_PAT>>
locals == <<full_text, nmsg, upserts, fileIdx>>
disk == <<wsState, cloner, dirty, kinds, wrote>>
clients == <<stream, reply>>

\* start_build running the task's first stretch itself before it returns
start_build_eager ==
    /\ \E build_id \in JobIds \ DOMAIN _jobs, issue_number \in Issues :
         /\ _jobs' = [b \in DOMAIN _jobs \cup {build_id} |->
                         IF b = build_id
                         THEN BeforeWorkspace(BuildJob(build_id, issue_number,
                                                       Cardinality(DOMAIN _jobs)))
                         ELSE _jobs[b]]
         /\ pc' = [pc EXCEPT ![build_id] = "start"]
    /\ UNCHANGED <<config, collector, clients, locals, disk, calls, responses, raised>>

\* start_build taking an identifier that may be in the registry already,
\* whose entry it replaces
start_build_overwrites ==
    /\ \E build_id \in JobIds, issue_number \in Issues :
         /\ _jobs' = [b \in DOMAIN _jobs \cup {build_id} |->
                         IF b = build_id
                         THEN BuildJob(build_id, issue_number,
                                       Cardinality(DOMAIN _jobs))
                         ELSE _jobs[b]]
         /\ pc' = [pc EXCEPT ![build_id] = "start"]
    /\ UNCHANGED <<config, collector, clients, locals, disk, calls, responses, raised>>

\* start_build (and the /build handler around it): a fresh uuid, the job in
\* the registry, its task scheduled but not yet run.
start_build ==
    /\ \E build_id \in JobIds \ DOMAIN _jobs, issue_number \in Issues :
         /\ _jobs' = [b \in DOMAIN _jobs \cup {build_id} |->
                         IF b = build_id
                         THEN BuildJob(build_id, issue_number,
                                       Cardinality(DOMAIN _jobs))
                         ELSE _jobs[b]]
         /\ pc' = [pc EXCEPT ![build_id] = "start"]
    /\ UNCHANGED <<config, collector, clients, locals, disk, calls, responses, raised>>

\* _run_agent from its first line into ensure_workspace, up to the first
\* await: git checkout when .git is there, git clone when it is not.  While
\* another job's clone is running, .git may or may not exist yet.
RunAgentStart(j) ==
    /\ pc[j] = "start"
    /\ \/ /\ wsState \in {"ready", "diverged", "cloning"}
          /\ Step(j, Outcome(BeforeWorkspace(_jobs[j]), "ws_checkout",
                             <<"ensure_workspace", "git checkout">>, << >>, None))
          /\ UNCHANGED disk
       \/ /\ wsState \in {"absent", "cloning"}
          /\ Step(j, Outcome(BeforeWorkspace(_jobs[j]), "ws_clone",
                             <<"ensure_workspace", "git clone">>, << >>, None))
          /\ wsState' = "cloning"
          /\ cloner' = IF wsState = "absent" THEN j ELSE cloner
          /\ UNCHANGED <<dirty, kinds, wrote>>
    /\ UNCHANGED <<config, collector, clients, locals>>

\* ensure_workspace: git checkout main has ended; its exit code is not read.
WsCheckoutDone(j) ==
    /\ pc[j] = "ws_checkout"
    /\ Step(j, Outcome(_jobs[j], "ws_pull", <<"git pull">>, << >>, None))
    /\ UNCHANGED <<config, collector, clients, locals, disk>>

\* git pull --ff-only exits non-zero when main cannot be fast-forwarded
PullExit(ws) == IF ws = "diverged" THEN "git pull exited 1" ELSE "git pull exited 0"

\* ensure_workspace: git pull --ff-only has ended; its exit code is not read.
WsPullDone(j) ==
    /\ pc[j] = "ws_pull"
    /\ Step(j, Outcome(AfterWorkspace(_jobs[j]), "agent",
                       <<PullExit(wsState), "ensure_workspace returned", "query">>,
                       << >>, None))
    /\ UNCHANGED <<config, collector, clients, locals, disk>>

\* ensure_workspace: git clone has ended.  Only the clone that created the
\* directory can succeed; a failed clone removes what it created.
WsCloneDone(j) ==
    /\ pc[j] = "ws_clone"
    /\ \/ /\ cloner = j
          /\ Step(j, Outcome(AfterWorkspace(_jobs[j]), "agent",
                             <<"ensure_workspace returned", "query">>, << >>, None))
          /\ wsState' = "ready"
          /\ cloner' = 0
       \/ /\ Raise(j, <<"git clone failed: ", "stderr">>)
          /\ wsState' = IF cloner = j THEN "absent" ELSE wsState
          /\ cloner' = IF cloner = j THEN 0 ELSE cloner
    /\ UNCHANGED <<config, collector, clients, locals, dirty, kinds, wrote>>

\* The agent stream yields one message out of messages, the stream being at
\* most max long.
AgentYield(j, max, messages) ==
    /\ pc[j] = "agent"
    /\ nmsg[j] < max
    /\ \E m \in messages :
         /\ _jobs' = [_jobs EXCEPT ![j] = OnMessage(@, m)]
         /\ full_text' = [full_text EXCEPT ![j] = OnMessageText(@, m)]
         /\ dirty' = dirty \cup m.writes
         /\ kinds' = [p \in WorkPaths |-> IF p \in m.writes THEN m.leaves
                                                             ELSE kinds[p]]
         /\ wrote' = [wrote EXCEPT ![j] = @ \cup m.writes]
    /\ nmsg' = [nmsg EXCEPT ![j] = @ + 1]
    /\ UNCHANGED <<config, collector, clients, pc, upserts, fileIdx, wsState, cloner, calls,
                   responses, raised>>

AgentMessage(j) == AgentYield(j, MaxAgentMsgs, AgentMessages)

\* the same and, beside them, tools that delete the files they are given
\* (leaves "not a file") or write them as binary data (leaves "undecodable")
SoloMessages ==
    AgentMessages
        \cup [kind : {"tool_use"}, writes : SUBSET Paths \ {{}},
              leaves : FileKinds \ {"text"}]

\* the same for a job that runs alone
SoloAgentMessage(j) == AgentYield(j, MaxSoloMsgs, SoloMessages)

\* The agent stream ends: git diff / git ls-files are started.
AgentEnd(j) ==
    /\ pc[j] = "agent"
    /\ Step(j, Outcome(_log(_jobs[j], "status",
                            <<"Agent finished. Collecting changed files...">>),
                       "collect", <<"query returned", "_collect_changed_files">>,
                       << >>, None))
    /\ UNCHANGED <<config, collector, clients, locals, disk>>

\* The agent stream raises and the exception is swallowed: _run_agent goes
\* on to change collection.
AgentRaise_swallowed(j) ==
    /\ pc[j] = "agent"
    /\ Step(j, Outcome(_log(_jobs[j], "status",
                            <<"Agent finished. Collecting changed files...">>),
                       "collect", <<"query raised", "_collect_changed_files">>,
                       << >>, None))
    /\ UNCHANGED <<config, collector, clients, locals, disk>>

\* The agent stream raises (the agent cannot be started or ends abnormally).
AgentRaise(j) ==
    /\ pc[j] = "agent"
    /\ Raise(j, <<"agent error">>)
    /\ UNCHANGED <<config, collector, clients, locals, disk>>

\* _collect_changed_files returns; _run_agent goes on to the next await:
\* no changes, the whole managed attempt, or the start of the direct one.
CollectDone(j) ==
    /\ pc[j] = "collect"
    /\ \E changed \in Orderings(dirty), commit_result \in CommitResults,
          pr_result \in ComposioResults :
       \E ups \in _collect_changed_files(changed, << >>, [p \in dirty |-> kinds[p]]) :
         LET o == AfterCollect(_jobs[j], ups, commit_result, pr_result,
                               USE_COMPOSIO, GITHUB_PAT)
         IN  /\ Step(j, [o EXCEPT !.calls =
                                <<"_collect_changed_files returned">> \o @])
             /\ upserts' = [upserts EXCEPT ![j] = ups]
    /\ UNCHANGED <<config, collector, clients, full_text, nmsg, fileIdx, disk>>

\* _collect_changed_files raises (git cannot be run in the workspace).
CollectRaise(j) ==
    /\ pc[j] = "collect"
    /\ Raise(j, <<"collect error">>)
    /\ UNCHANGED <<config, collector, clients, locals, disk>>

\* ------------------------------------------------------ direct API
\* _push_via_github_api resumes at each await of an HTTP request.  A request
\* either returns or raises (transport error, raise_for_status, bad body).

HttpError(request) == <<"HTTP error for ", request>>

\* the request for the tip of main is issued once more after it failed
ApiShaDone_retry(j) ==
    /\ pc[j] = "api_sha"
    /\ \/ Step(j, Outcome(_log(_jobs[j], "status", <<"Creating branch...">>),
                          "api_branch", <<"POST git/refs">>, << >>, None))
       \/ IF Cardinality({i \in DOMAIN calls[j] :
                              calls[j][i] = "GET git/ref/heads/main"}) < 2
          THEN Step(j, Outcome(_jobs[j], "api_sha", <<"GET git/ref/heads/main">>,
                               << >>, None))
          ELSE Raise(j, HttpError("GET git/ref/heads/main"))
    /\ UNCHANGED <<config, collector, clients, locals, disk>>

\* the request for the tip of main has ended
ApiShaDone(j) ==
    /\ pc[j] = "api_sha"
    /\ \/ Step(j, Outcome(_log(_jobs[j], "status", <<"Creating branch...">>),
                          "api_branch", <<"POST git/refs">>, << >>, None))
       \/ Raise(j, HttpError("GET git/ref/heads/main"))
    /\ UNCHANGED <<config, collector, clients, locals, disk>>

\* the request creating the branch has ended and the pull request is
\* requested at once, before any file is committed
ApiBranchDone_skipsCommit(j) ==
    /\ pc[j] = "api_branch"
    /\ \/ /\ Step(j, Outcome(_log(_jobs[j], "status", <<"Creating pull request...">>),
                             "api_pr", <<"POST pulls">>, << >>, None))
          /\ UNCHANGED fileIdx
       \/ /\ Raise(j, HttpError("POST git/refs"))
          /\ UNCHANGED fileIdx
    /\ UNCHANGED <<config, collector, clients, full_text, nmsg, upserts, disk>>

\* the request creating the branch has ended; _commit_files_api starts with
\* the existence check of the first file
ApiBranchDone(j) ==
    /\ pc[j] = "api_branch"
    /\ \/ /\ Step(j, Outcome(_log(_jobs[j], "status",
                                  <<"Committing ", ToString(Len(upserts[j])),
                                    " file(s)...">>),
                             "api_check", <<"GET contents">>, << >>, None))
          /\ fileIdx' = [fileIdx EXCEPT ![j] = 1]
       \/ /\ Raise(j, HttpError("POST git/refs"))
          /\ UNCHANGED fileIdx
    /\ UNCHANGED <<config, collector, clients, full_text, nmsg, upserts, disk>>

\* _commit_files_api: the existence check of the current file has ended (any
\* status code is accepted); the upsert is issued
ApiCheckDone(j) ==
    /\ pc[j] = "api_check"
    /\ \/ Step(j, Outcome(_jobs[j], "api_put", <<"PUT contents">>, << >>, None))
       \/ Raise(j, HttpError("GET contents"))
    /\ UNCHANGED <<config, collector, clients, locals, disk>>

\* _commit_files_api: the upsert of the current file has ended; the loop goes
\* to the next file, or the pull request is requested
ApiPutDone(j) ==
    /\ pc[j] = "api_put"
    /\ \/ /\ fileIdx[j] < Len(upserts[j])
          /\ Step(j, Outcome(_jobs[j], "api_check", <<"GET contents">>, << >>, None))
          /\ fileIdx' = [fileIdx EXCEPT ![j] = @ + 1]
       \/ /\ fileIdx[j] >= Len(upserts[j])
          /\ Step(j, Outcome(_log(_jobs[j], "status", <<"Creating pull request...">>),
                             "api_pr", <<"POST pulls">>, << >>, None))
          /\ UNCHANGED fileIdx
       \/ /\ Raise(j, HttpError("PUT contents"))
          /\ UNCHANGED fileIdx
    /\ UNCHANGED <<config, collector, clients, full_text, nmsg, upserts, disk>>

\* the request creating the pull request has ended; GitHub's answer to a
\* created pull request carries its html_url
ApiPrDone(j) ==
    /\ pc[j] = "api_pr"
    /\ \/ Step(j, Outcome(PushEnd(_jobs[j], [html_url |-> TRUE]), "done",
                          << >>, << >>, None))
       \/ Raise(j, HttpError("POST pulls"))
    /\ UNCHANGED <<config, collector, clients, locals, disk>>

\* ------------------------------------------------- clients of a job
jobs == <<_jobs, pc, locals, disk, calls, responses, raised>>

\* a status query that hands out the log and empties it
build_status_endpoint_drain ==
    /\ \E build_id \in DOMAIN _jobs :
         /\ reply' = [endpoint |-> "status", build_id |-> build_id,
                      response |-> StatusResponse(build_id)]
         /\ _jobs' = [_jobs EXCEPT ![build_id].logs = << >>]
    /\ UNCHANGED <<config, collector, pc, locals, disk, calls, responses, raised, stream>>

\* GET /build/{build_id}/status
build_status_endpoint ==
    /\ \E build_id \in JobIds :
         reply' = [endpoint |-> "status", build_id |-> build_id,
                   response |-> StatusResponse(build_id)]
    /\ UNCHANGED <<config, collector, jobs, stream>>

\* GET /build/{build_id}/stream: 404, or the generator handed to the response
build_stream_endpoint(r) ==
    /\ stream[r].at = "none"
    /\ \E build_id \in JobIds :
         \/ /\ get_job(build_id) = None
            /\ reply' = [endpoint |-> "stream", build_id |-> build_id,
                         response |-> NotFound]
            /\ UNCHANGED stream
         \/ /\ get_job(build_id) # None
            /\ reply' = [endpoint |-> "stream", build_id |-> build_id,
                         response |-> StreamingResponse]
            /\ stream' = [stream EXCEPT
                             ![r] = OpenStream(build_id, get_job(build_id)[1])]
    /\ UNCHANGED <<config, collector, jobs>>

\* the response resumes the generator of reader r
StreamResume(r) ==
    /\ stream[r].at \in {"open", "yield", "sleep", "yield_done"}
    /\ stream' = [stream EXCEPT
                     ![r] = event_generator(_jobs[stream[r].build_id], @)]
    /\ UNCHANGED <<config, collector, jobs, reply>>

\* the client of reader r disconnects: the generator is closed where it is
\* suspended and discarded
StreamDetach(r) ==
    /\ stream[r].at \in {"open", "yield", "sleep", "yield_done"}
    /\ stream' = [stream EXCEPT ![r] = [NoStream EXCEPT !.at = "detached"]]
    /\ UNCHANGED <<config, collector, jobs, reply>>

\* ---------------------------------------------------- specification

\* the steps of the task of job j
_run_agent(j) ==
    \/ RunAgentStart(j)
    \/ WsCheckoutDone(j)
    \/ WsPullDone(j)
    \/ WsCloneDone(j)
    \/ AgentMessage(j)
    \/ AgentEnd(j)
    \/ AgentRaise(j)
    \/ CollectDone(j)
    \/ CollectRaise(j)
    \/ ApiShaDone(j)
    \/ ApiBranchDone(j)
    \/ ApiCheckDone(j)
    \/ ApiPutDone(j)
    \/ ApiPrDone(j)

\* the steps of the clients
Client ==
    \/ build_status_endpoint
    \/ \E r \in Readers :
         \/ build_stream_endpoint(r)
         \/ StreamResume(r)
         \/ StreamDetach(r)

\* jobs with clients watching them
StreamNext ==
    \/ Cardinality(DOMAIN _jobs) < MaxStreamJobs /\ start_build
    \/ \E j \in JobIds : _run_agent(j)
    \/ Client

StreamSpec == Init /\ [][StreamNext]_vars

\* every task is scheduled again and again, and what it awaits ends
FairStreamSpec == StreamSpec /\ \A j \in JobIds : WF_vars(_run_agent(j))

\* ---------------------------------------------- the collector alone
ListedPaths == 1..MaxListed

\* the outputs of a git command: up to MaxListed lines, each a path or empty
GitOutputs ==
    UNION {[1..n -> ListedPaths \cup {EmptyLine}] : n \in 0..MaxListed}

\* _collect_changed_files is called on a workspace where git prints the two
\* lists and the listed paths are what kind says
CollectInit ==
    /\ Boot
    /\ ~COMPOSIO_API_KEY /\ ~GITHUB_PAT
    /\ wsState = "ready"
    /\ dirty = {}
    /\ \E changed \in GitOutputs, untracked \in GitOutputs,
          kind \in [ListedPaths -> FileKinds] :
         collector = [at |-> "called", changed |-> changed, untracked |-> untracked,
                      kind |-> kind, upserts |-> << >>]

\* the call returns
CollectorReturns ==
    /\ collector.at = "called"
    /\ \E out \in _collect_changed_files(collector.changed, collector.untracked,
                                          collector.kind) :
         collector' = [collector EXCEPT !.at = "returned", !.upserts = out]
    /\ UNCHANGED <<config, _jobs, pc, locals, disk, calls, responses, raised, clients>>

CollectSpec == CollectInit /\ [][CollectorReturns]_vars

\* one job on a working copy that holds earlier changes
OneJobNext ==
    \/ Cardinality(DOMAIN _jobs) < MaxStreamJobs /\ start_build
    \/ \E j \in JobIds : _run_agent(j)
    \/ \E j \in JobIds : SoloAgentMessage(j)

LeftoverSpec == LeftoverInit /\ [][OneJobNext]_vars

\* the jobs alone
Next ==
    \/ start_build
    \/ \E j \in JobIds :
         \/ RunAgentStart(j)
         \/ WsCheckoutDone(j)
         \/ WsPullDone(j)
         \/ WsCloneDone(j)
         \/ AgentMessage(j)
         \/ AgentEnd(j)
         \/ AgentRaise(j)
         \/ CollectDone(j)
         \/ CollectRaise(j)
         \/ ApiShaDone(j)
         \/ ApiBranchDone(j)
         \/ ApiCheckDone(j)
         \/ ApiPutDone(j)
         \/ ApiPrDone(j)

Spec == Init /\ [][Next]_vars

\* ------------------------------------------------- derived histories

IsPrefix(s, t) == Len(s) <= Len(t) /\ SubSeq(t, 1, Len(s)) = s

Has(seq, x) == \E i \in DOMAIN seq : seq[i] = x

Count(seq, x) == Cardinality({i \in DOMAIN seq : seq[i] = x})

\* number of assignments made to an attribute of the job
WritesTo(job, field) ==
    Cardinality({i \in DOMAIN job.writes : job.writes[i].field = field})

IsStatusWrite(w) == w.field = "status"

\* every value job.status has taken, in order: the default, then each assignment
StatusSeq(job) ==
    LET ws == SelectSeq(job.writes, IsStatusWrite)
    IN  <<"queued">> \o [i \in DOMAIN ws |-> ws[i].value]

Rank(status) ==
    CASE status = "queued"  -> 0
      [] status = "cloning" -> 1
      [] status = "running" -> 2
      [] status = "pushing" -> 3
      [] OTHER              -> 4

IsStrategy(c) == c \in {"_push_via_composio", "_push_via_github_api"}

\* the publish strategies job j has invoked, in order
Attempts(j) == SelectSeq(calls[j], IsStrategy)

\* remote calls of the managed and of the direct strategy
ComposioCalls == {"GITHUB_COMMIT_MULTIPLE_FILES", "GITHUB_CREATE_A_PULL_REQUEST"}
ApiCalls == {"GET git/ref/heads/main", "POST git/refs", "GET contents",
             "PUT contents", "POST pulls"}

\* job j made no publish attempt and no remote call
NoPublish(j) ==
    \A i \in DOMAIN calls[j] :
        ~IsStrategy(calls[j][i]) /\ calls[j][i] \notin ComposioCalls \cup ApiCalls

\* _collect_changed_files has returned to job j's task
Collected(j) == Has(calls[j], "_collect_changed_files returned")

\* the managed attempt of job j failed: a call raised or its envelope
\* reported failure
ManagedFailed(j) ==
    \E i \in DOMAIN responses[j] :
        responses[j][i].raises \/ ~responses[j][i].successful

\* ---------------------------------------------------------------- claims

\* C1: the values job.status takes are non-decreasing under
\* queued < cloning < running < pushing < {completed, failed}, and a terminal
\* status is never followed by a different one.
C1_StatusMonotone ==
    \A j \in DOMAIN _jobs :
        LET h == StatusSeq(_jobs[j])
        IN  /\ h[Len(h)] = _jobs[j].status
            /\ \A i \in 1..(Len(h) - 1) :
                 /\ Rank(h[i]) <= Rank(h[i + 1])
                 /\ h[i] \in Terminal => h[i + 1] = h[i]

\* C1 witness: one job went through every status to completed while another
\* failed out of pushing.
C1_Witness ==
    \E j, k \in DOMAIN _jobs :
        /\ StatusSeq(_jobs[j]) = <<"queued", "cloning", "running", "pushing", "completed">>
        /\ StatusSeq(_jobs[k]) = <<"queued", "cloning", "running", "pushing", "failed">>

\* C2: every step leaves each job's log extended at its end only: the log
\* before the step is a prefix of the log after it, and no job disappears.
C2_LogAppendOnly ==
    [][\A j \in DOMAIN _jobs :
          /\ j \in DOMAIN _jobs'
          /\ IsPrefix(_jobs[j].logs, _jobs'[j].logs)]_vars

\* C2 witness: a job that ran to the end through the fallback, its log
\* holding entries of the agent and of both strategies.
C2_Witness ==
    \E j \in DOMAIN _jobs :
        /\ _jobs[j].status = "completed"
        /\ Len(_jobs[j].logs) >= 10

\* C3: pr_url is assigned at most once, and in every state it is set iff
\* the status is completed.
C3_PrUrlIffCompleted ==
    \A j \in DOMAIN _jobs :
        /\ WritesTo(_jobs[j], "pr_url") <= 1
        /\ (_jobs[j].pr_url # None) <=> (_jobs[j].status = "completed")

\* C3 witness: a completed job holding its pull request's URL beside a job
\* that failed after a managed attempt and holds none.
C3_Witness ==
    \E j, k \in DOMAIN _jobs :
        /\ _jobs[j].status = "completed" /\ _jobs[j].pr_url = HtmlUrl
        /\ _jobs[k].status = "failed" /\ Has(calls[k], "GITHUB_CREATE_A_PULL_REQUEST")
        /\ _jobs[k].pr_url = None

\* C4: error is assigned at most once, and in every state it is set iff the
\* status is failed; so a job completed by the fallback has no error.
C4_ErrorIffFailed ==
    \A j \in DOMAIN _jobs :
        /\ WritesTo(_jobs[j], "error") <= 1
        /\ (_jobs[j].error # None) <=> (_jobs[j].status = "failed")

\* C4 witness: the managed attempt failed, the direct one completed the job.
C4_Witness ==
    \E j \in DOMAIN _jobs :
        /\ Attempts(j) = <<"_push_via_composio", "_push_via_github_api">>
        /\ _jobs[j].status = "completed"
        /\ _jobs[j].error = None

\* C5: an exception of any step ends the task in the handler: status failed,
\* error the exception's message, an error entry last in the log; and a task
\* that has ended has left its job terminal.
C5_FailureFunnel ==
    \A j \in DOMAIN _jobs :
        /\ raised[j] # None =>
             /\ pc[j] = "done"
             /\ _jobs[j].status = "failed"
             /\ _jobs[j].error = raised[j]
             /\ _jobs[j].logs[Len(_jobs[j].logs)].type = "error"
        /\ pc[j] = "done" => _jobs[j].status \in Terminal

\* C5 witness: one job failed in the managed publish with no fallback at
\* hand, another in change collection.
C5_Witness ==
    \E j, k \in DOMAIN _jobs :
        /\ raised[j] = ComposioFailed(<<"composio client error">>)
        /\ raised[k] = <<"collect error">>

\* C6: an empty change set takes the job from running straight to failed
\* with the no-changes error, without any publish attempt; and only an
\* empty change set, never an exception, gives that error.
C6_NoChanges ==
    \A j \in DOMAIN _jobs :
        /\ (Collected(j) /\ upserts[j] = << >>) =>
             /\ StatusSeq(_jobs[j]) = <<"queued", "cloning", "running", "failed">>
             /\ _jobs[j].error = NoChanges
             /\ NoPublish(j)
             /\ pc[j] = "done"
        /\ _jobs[j].error = NoChanges =>
             Collected(j) /\ upserts[j] = << >> /\ raised[j] = None

\* C6 witness: a job whose collector returned nothing.
C6_Witness ==
    \E j \in DOMAIN _jobs :
        Collected(j) /\ upserts[j] = << >> /\ _jobs[j].error = NoChanges

\* C7 (as claimed): with both strategies configured, a managed attempt that
\* raised or reported failure is followed by exactly one direct attempt, is
\* not repeated, and the job fails only if the direct attempt failed.
C7_FallbackOnManagedFailure ==
    \A j \in DOMAIN _jobs :
        (USE_COMPOSIO /\ GITHUB_PAT /\ ManagedFailed(j)) =>
            /\ Count(calls[j], "_push_via_composio") = 1
            /\ Count(calls[j], "_push_via_github_api") = 1
            /\ _jobs[j].status = "failed" =>
                 \E c \in ApiCalls : raised[j] = HttpError(c)

\* C8: with neither credential configured a job with changes fails with the
\* configuration error and makes no publish call; that error is given only
\* when no publish call was made.
C8_NoCredentials ==
    \A j \in DOMAIN _jobs :
        /\ (~COMPOSIO_API_KEY /\ ~GITHUB_PAT /\ Collected(j) /\ upserts[j] # << >>) =>
             /\ pc[j] = "done"
             /\ _jobs[j].status = "failed"
             /\ _jobs[j].error = NoCredentials
             /\ NoPublish(j)
        /\ _jobs[j].error = NoCredentials => NoPublish(j)

\* C8 witness: a job with changes and no credential at all.
C8_Witness ==
    \E j \in DOMAIN _jobs :
        /\ ~COMPOSIO_API_KEY /\ ~GITHUB_PAT
        /\ upserts[j] # << >>
        /\ _jobs[j].error = NoCredentials

\* C9: once a job is pushing, the managed strategy is the first one tried
\* iff USE_COMPOSIO; without USE_COMPOSIO no managed call is made at all and
\* only the direct strategy runs; the direct strategy never precedes the
\* managed one.
C9_StrategySelection ==
    \A j \in DOMAIN _jobs :
        LET a == Attempts(j)
        IN  /\ (USE_COMPOSIO /\ Has(StatusSeq(_jobs[j]), "pushing")) =>
                 a # << >> /\ a[1] = "_push_via_composio"
            /\ a # << >> => (a[1] = "_push_via_composio" <=> USE_COMPOSIO)
            /\ ~USE_COMPOSIO =>
                 \A i \in DOMAIN calls[j] :
                     calls[j][i] \notin ComposioCalls \cup {"_push_via_composio"}
            /\ \A i, k \in DOMAIN a :
                 (a[i] = "_push_via_github_api" /\ a[k] = "_push_via_composio") => k < i

\* C9 witness: both strategies ran, the managed one first.
C9_Witness ==
    \E j \in DOMAIN _jobs :
        /\ Attempts(j) = <<"_push_via_composio", "_push_via_github_api">>
        /\ pc[j] = "api_pr"

\* C10 (as claimed): a job completed by the managed strategy got a
\* pull-request response that carried html_url.
C10_ManagedNeedsHtmlUrl ==
    \A j \in DOMAIN _jobs :
        (_jobs[j].status = "completed" /\ Attempts(j) = <<"_push_via_composio">>) =>
            responses[j][Len(responses[j])].html_url

\* the envelope reports failure without the client having raised
ReportsFailure(r) == ~r.raises /\ ~r.successful

\* C11 (as claimed): a managed call whose envelope reports failure, with or
\* without an error text, ends the managed attempt like an exception: no
\* further managed call follows it and the job is not completed by the
\* managed strategy.
C11_ReportedFailureAbandons ==
    \A j \in DOMAIN _jobs :
        \A i \in DOMAIN responses[j] :
            ReportsFailure(responses[j][i]) =>
                /\ i = Len(responses[j])
                /\ ~(/\ _jobs[j].status = "completed"
                     /\ Attempts(j) = <<"_push_via_composio">>)

\* C14: a step that creates a job leaves it in the registry under the id it
\* returns, with status queued and an empty log, its task scheduled but not
\* yet run, whatever the other jobs are doing; /build answers that id and
\* "queued".
C14_CreatedQueued ==
    [][\A b \in DOMAIN _jobs' \ DOMAIN _jobs :
          /\ BuildStartResponse(_jobs'[b]) = [build_id |-> b, status |-> "queued"]
          /\ _jobs'[b].logs = << >>
          /\ _jobs'[b].writes = << >>
          /\ pc'[b] = "start" /\ calls'[b] = << >>]_vars

\* C14 witness: a job just created, queued with an empty log, while another
\* job is running its agent.
C14_Witness ==
    \E j, k \in DOMAIN _jobs :
        /\ pc[j] = "start" /\ _jobs[j].status = "queued" /\ _jobs[j].logs = << >>
        /\ _jobs[j].created_at = 1
        /\ pc[k] = "agent" /\ _jobs[k].status = "running"

CloneFailed == <<"git clone failed: ", "stderr">>

\* C16 (as claimed): when git clone fails, or git pull --ff-only exits
\* non-zero on an existing working copy, the agent is not started and the
\* job's task ends with the job failed.
C16_WorkspaceFailureFails ==
    \A j \in DOMAIN _jobs :
        (raised[j] = CloneFailed \/ Has(calls[j], "git pull exited 1")) =>
            /\ ~Has(calls[j], "query")
            /\ pc[j] = "done" /\ _jobs[j].status = "failed"

\* C17 (as claimed): the change set collected for a job holds only files
\* that job's own agent has written.
C17_WorkspaceIsolated ==
    \A j \in DOMAIN _jobs :
        \A i \in DOMAIN upserts[j] : upserts[j][i] \in wrote[j]

\* the log entries appended between the k-th assignment to job.status and
\* the next one (or the end of the log), as the set of their indices
EntriesAfterTransition(job, k) ==
    LET ws == SelectSeq(job.writes, IsStatusWrite)
    IN  (ws[k].at + 1) .. (IF k < Len(ws) THEN ws[k + 1].at ELSE Len(job.logs))

\* C19 (as claimed): every assignment to job.status is followed, before the
\* next one, by at least one log entry of type status.
C19_TransitionLogsStatus ==
    \A j \in DOMAIN _jobs :
        \A k \in 1..WritesTo(_jobs[j], "status") :
            \E n \in EntriesAfterTransition(_jobs[j], k) :
                _jobs[j].logs[n].type = "status"

\* ------------------------------------------------- claims on the clients

\* the streams that are open or have ended by themselves
Streams == {r \in Readers : stream[r].at \notin {"none", "detached"}}

IsDone(e) == e.index = -1

HasDone(st) == \E i \in DOMAIN st.events : IsDone(st.events[i])

\* the identifiers start_build has issued: those for which it created a task
Issued == {b \in JobIds : pc[b] # "unborn"}

\* C12: on every stream of an existing job, whenever it was opened and however
\* its generator and the job's task interleave: the entry events carry the
\* job's log entries under consecutive increasing indices; done is yielded at
\* most once and is the last event; when done has been yielded the job is
\* terminal, done carries the job's final status, pr_url and error, and every
\* entry of the job's log was yielded before it; a stream that has ended by
\* itself has yielded done.
C12_StreamOrder ==
    \A r \in Streams :
        LET st == stream[r]
            ev == st.events
            job == _jobs[st.build_id]
        IN  /\ \A i \in DOMAIN ev :
                 IF IsDone(ev[i])
                 THEN i = Len(ev)
                 ELSE /\ ev[i].data = job.logs[ev[i].index + 1]
                      /\ i > 1 => ev[i].index = ev[i - 1].index + 1
            /\ HasDone(st) <=> st.at \in {"yield_done", "closed"}
            /\ HasDone(st) =>
                 /\ job.status \in Terminal
                 /\ ev[Len(ev)] = DoneEvent(job)
                 /\ {ev[i].index : i \in 1..(Len(ev) - 1)} = 0..(Len(job.logs) - 1)

\* C12 witness: a stream opened while the job was running has yielded the log
\* and done, and has ended.
C12_Witness ==
    \E r \in Readers :
        /\ stream[r].at = "closed"
        /\ stream[r].attached >= 3
        /\ Len(stream[r].events) >= 7
        /\ _jobs[stream[r].build_id].status = "completed"

\* C13 (as claimed): a stream opened when the log held k entries yields only
\* entries of index k and above.
C13_OnlyFromAttach ==
    \A r \in Streams :
        \A i \in DOMAIN stream[r].events :
            ~IsDone(stream[r].events[i]) =>
                stream[r].events[i].index >= stream[r].attached

\* C13 (amended): a stream yields the log from its first entry on, whatever
\* the log held when the stream was opened: its i-th event is the entry of
\* index i - 1, and when done is yielded the entries appended before the
\* stream was opened have all been yielded.
C13_ReplaysFromStart ==
    \A r \in Streams :
        /\ \A i \in DOMAIN stream[r].events :
             ~IsDone(stream[r].events[i]) => stream[r].events[i].index = i - 1
        /\ HasDone(stream[r]) => Len(stream[r].events) - 1 >= stream[r].attached

\* C13 witness: a stream opened after four entries had been appended has
\* yielded the first entry of the log.
C13_Witness ==
    \E r \in Readers :
        /\ stream[r].attached >= 4
        /\ stream[r].events # << >>
        /\ stream[r].events[1].index = 0

\* C15: in every state, for every identifier: if start_build has not issued
\* it, get_job gives None and the status query answers 404; if it has, get_job
\* gives that job and the status query answers 200 with its id; a stream is
\* only ever opened on, and a 200 only ever answered for, an issued id.
C15_NotFoundIffNotIssued ==
    /\ \A b \in JobIds :
         IF b \in Issued
         THEN /\ get_job(b) = <<_jobs[b]>>
              /\ StatusResponse(b).code = 200
              /\ StatusResponse(b).build_id = b
         ELSE /\ get_job(b) = None
              /\ StatusResponse(b) = NotFound
    /\ \A r \in Readers : stream[r].at # "none" => Issued # {}
    /\ \A r \in Streams : stream[r].build_id \in Issued
    /\ reply # None =>
         (reply.response.code = 404 \/ reply.build_id \in Issued)

\* C15 witness: the status query has answered 404 for an identifier never
\* issued, after a stream on the job that exists has run to its end.
C15_Witness ==
    /\ reply # None
    /\ reply.endpoint = "status" /\ reply.response = NotFound
    /\ reply.build_id \notin Issued
    /\ \E r \in Readers : stream[r].at = "closed"

\* C18: under fair scheduling of the tasks alone (no assumption on what the
\* clients do), every job created eventually has its task ended and a
\* terminal status; and a step of a client changes nothing of any job or task.
C18_JobsTerminate ==
    /\ \A j \in JobIds :
         (pc[j] = "start") ~> (pc[j] = "done" /\ _jobs[j].status \in Terminal)
    /\ [][(stream' # stream \/ reply' # reply) => UNCHANGED jobs]_vars

\* C18 witness: a job completed although its reader left in mid-stream.
C18_Witness ==
    \E r \in Readers, j \in DOMAIN _jobs :
        /\ stream[r].at = "detached"
        /\ _jobs[j].status = "completed" /\ pc[j] = "done"

Precedes(seq, a, b) ==
    \A i \in DOMAIN seq : seq[i] = b => \E k \in 1..(i - 1) : seq[k] = a

C22_CloneOnce ==
    /\ \A j, k \in DOMAIN _jobs :
           (pc[j] = "ws_clone" /\ pc[k] = "ws_clone") => j = k
    /\ \A j \in DOMAIN _jobs : pc[j] = "ws_clone" => cloner = j

\* what a step of job j's task appended to its calls
Issued_by_step(j) == SubSeq(calls'[j], Len(calls[j]) + 1, Len(calls'[j]))

\* C23: every network call of a publish strategy is a suspension point: the
\* step that issues a remote call ends with that call pending, so that other
\* tasks can run while it is awaited; no step issues a remote call and goes
\* on past it.
C23_NetworkCallsSuspend ==
    [][\A j \in JobIds :
          \A i \in DOMAIN Issued_by_step(j) :
              Issued_by_step(j)[i] \in ComposioCalls \cup ApiCalls
                  => i = Len(Issued_by_step(j))]_vars

\* the steps and remote calls a job makes once at most
OnceOnly ==
    {"ensure_workspace", "git clone", "git checkout", "git pull", "query",
     "_collect_changed_files", "_push_via_composio", "_push_via_github_api",
     "GITHUB_COMMIT_MULTIPLE_FILES", "GITHUB_CREATE_A_PULL_REQUEST",
     "GET git/ref/heads/main", "POST git/refs", "POST pulls"}

\* C24: nothing is retried: a job invokes workspace preparation, the agent,
\* change collection and each publish strategy once at most; the direct
\* strategy reads the tip, creates the branch and requests the pull request
\* once at most; and the k-th upsert is that of the k-th file of the change
\* set, whose paths are distinct, so that each file is upserted once at most.
C24_NoRetry ==
    \A j \in DOMAIN _jobs :
        /\ \A c \in OnceOnly : Count(calls[j], c) <= 1
        /\ \A i, k \in DOMAIN upserts[j] : upserts[j][i] = upserts[j][k] => i = k
        /\ Count(calls[j], "PUT contents") <= Count(calls[j], "GET contents")
        /\ Count(calls[j], "GET contents") <= Len(upserts[j])
        /\ pc[j] = "api_check" =>
             /\ Count(calls[j], "GET contents") = fileIdx[j]
             /\ Count(calls[j], "PUT contents") = fileIdx[j] - 1
        /\ pc[j] = "api_put" =>
             /\ Count(calls[j], "GET contents") = fileIdx[j]
             /\ Count(calls[j], "PUT contents") = fileIdx[j]

\* C24 witness: a job whose managed attempt failed and whose direct attempt
\* then committed two files and opened the pull request.
C24_Witness ==
    \E j \in DOMAIN _jobs :
        /\ Attempts(j) = <<"_push_via_composio", "_push_via_github_api">>
        /\ Len(upserts[j]) = 2
        /\ Count(calls[j], "PUT contents") = 2
        /\ _jobs[j].status = "completed"

\* the requests of the direct strategy for n files, in the order of the code
ApiSequence(n) ==
    [i \in 1..(2 * n + 3) |->
        IF i = 1 THEN "GET git/ref/heads/main"
        ELSE IF i = 2 THEN "POST git/refs"
        ELSE IF i = 2 * n + 3 THEN "POST pulls"
        ELSE IF i % 2 = 1 THEN "GET contents" ELSE "PUT contents"]

IsApiCall(c) == c \in ApiCalls

\* C25: the requests of the direct strategy are issued in the order read tip,
\* create branch, then per file existence check and upsert, then open pull
\* request, the pull request only after every file was upserted; a request
\* that fails is the last one the job issues and the job ends failed; a job
\* that used the direct strategy is completed only after the whole sequence.
C25_DirectOrder ==
    \A j \in DOMAIN _jobs :
        LET api == SelectSeq(calls[j], IsApiCall)
            all == ApiSequence(Len(upserts[j]))
        IN  /\ IsPrefix(api, all)
            /\ \A c \in ApiCalls :
                 raised[j] = HttpError(c) =>
                     /\ api # << >> /\ api[Len(api)] = c
                     /\ calls[j][Len(calls[j])] = c
                     /\ pc[j] = "done"
                     /\ _jobs[j].status = "failed"
            /\ (Has(calls[j], "_push_via_github_api") /\ _jobs[j].status = "completed")
                 => api = all

\* C25 witness: the upsert of the second file failed: the job is failed, the
\* first file stays committed and no pull request was requested.
C25_Witness ==
    \E j \in DOMAIN _jobs :
        /\ raised[j] = HttpError("PUT contents")
        /\ Count(calls[j], "PUT contents") = 2
        /\ ~Has(calls[j], "POST pulls")
        /\ _jobs[j].status = "failed"

\* ------------------------------------------------ claims on agent output

RECURSIVE Concat(_)
\* the concatenation of a sequence of strings (each a tuple of parts)
Concat(ss) == IF ss = << >> THEN << >> ELSE Head(ss) \o Concat(Tail(ss))

IsAgentText(e) == e.type = "agent_text"
IsAgentOutput(e) == e.type \in {"agent_text", "tool_use"}
NotBlank(part) == part # " "

\* the messages of the agent_text entries of a job, in log order
AgentTexts(job) ==
    LET es == SelectSeq(job.logs, IsAgentText)
    IN  [i \in DOMAIN es |-> es[i].message]

AgentFinished == <<"Agent finished. Collecting changed files...">>

\* what a step appended to the log of job j
Logged_by_step(j) == SubSeq(_jobs'[j].logs, Len(_jobs[j].logs) + 1, Len(_jobs'[j].logs))

\* C26 as stated: the concatenation of the agent_text messages of a job
\* equals its accumulated narrative text.
C26_TextEqualsLog ==
    \A j \in DOMAIN _jobs : Concat(AgentTexts(_jobs[j])) = full_text[j]

\* C26: the concatenation of the agent_text messages of a job equals its
\* accumulated narrative text without the text blocks of white space only;
\* agent_text and tool_use entries all precede 'Agent finished'; and each
\* message of the agent stream appends at most one entry, an agent_text entry
\* for a text fragment that is not blank, a tool_use entry for a tool
\* invocation, none for a blank text block.
C26_LogsAgentOutput ==
    /\ [](\A j \in DOMAIN _jobs :
            /\ Concat(AgentTexts(_jobs[j])) = SelectSeq(full_text[j], NotBlank)
            /\ \A i, k \in DOMAIN _jobs[j].logs :
                 (IsAgentOutput(_jobs[j].logs[i])
                    /\ _jobs[j].logs[k].message = AgentFinished) => i < k)
    /\ [][\A j \in DOMAIN _jobs :
            nmsg'[j] # nmsg[j] =>
                LET new == Logged_by_step(j)
                    said == SubSeq(full_text'[j], Len(full_text[j]) + 1,
                                   Len(full_text'[j]))
                IN  /\ Len(new) <= 1
                    /\ \A i \in DOMAIN new : IsAgentOutput(new[i])
                    /\ (said # << >> /\ said # <<" ">>) <=>
                         (Len(new) = 1 /\ new[1].type = "agent_text"
                            /\ new[1].message = said)
                    /\ said = <<" ">> => new = << >>
                    /\ wrote'[j] # wrote[j] =>
                         (Len(new) = 1 /\ new[1].type = "tool_use")]_vars

\* C26 witness: the agent has finished after a blank text block and a text
\* fragment: one agent_text entry, two fragments of narrative text.
C26_Witness ==
    \E j \in DOMAIN _jobs :
        /\ full_text[j] = <<" ", "text">>
        /\ AgentTexts(_jobs[j]) = << <<"text">> >>
        /\ \E k \in DOMAIN _jobs[j].logs : _jobs[j].logs[k].message = AgentFinished

\* ------------------------------------------------ claims on the remote

\* branch_name = f"ai/issue-{issue_number}": the branch a job publishes to
branch_name(job) == <<"ai/issue-", ToString(job.issue_number)>>

\* C27: two distinct jobs that reach a publish strategy never publish to the
\* same branch name, jobs for the same issue number included.
C27_BranchPerJob ==
    \A j, k \in DOMAIN _jobs :
        (j # k /\ Attempts(j) # << >> /\ Attempts(k) # << >>)
            => branch_name(_jobs[j]) # branch_name(_jobs[k])

\* ---------------------------------------------- claims on the collector

\* C28: the change set the collector returns has one entry at most per path;
\* each of its paths is listed by git diff or git ls-files and is a regular
\* file that read as text; every listed file that reads as text is in it; a
\* listed path that is no file or does not decode is left out and the call
\* still returns.
C28_CollectorSound ==
    LET listed == Range(collector.changed) \cup Range(collector.untracked)
        out == collector.upserts
    IN  /\ collector.at = "called" => ENABLED CollectorReturns
        /\ collector.at = "returned" =>
             /\ \A i, k \in DOMAIN out : out[i] = out[k] => i = k
             /\ \A i \in DOMAIN out :
                  /\ out[i] \in listed \ {EmptyLine}
                  /\ collector.kind[out[i]] = "text"
             /\ \A p \in listed \ {EmptyLine} :
                  collector.kind[p] = "text" => p \in Range(out)

\* C28 witness: git listed a text file twice and a file that does not
\* decode; the call returned the text file once.
C28_Witness ==
    /\ collector.at = "returned"
    /\ \E p, q \in ListedPaths :
         /\ p \in Range(collector.changed) \cap Range(collector.untracked)
         /\ q \in Range(collector.changed)
         /\ collector.kind[p] = "text"
         /\ collector.kind[q] = "undecodable"
         /\ collector.upserts = <<p>>

\* ----------------------------------------------- claims on the registry

\* C29: the registry only grows: a step never removes a key; start_build adds
\* exactly one key, whose entry is a new job, and no other step adds one; an
\* entry is never replaced: it keeps its identifier, issue number and
\* creation time, and its log and the assignments made to it are only
\* extended, so that a lookup returns the record that was inserted.
C29_RegistryGrows ==
    [][/\ DOMAIN _jobs \subseteq DOMAIN _jobs'
       /\ Cardinality(DOMAIN _jobs' \ DOMAIN _jobs) <= 1
       /\ (\E b \in JobIds : pc[b] = "unborn" /\ pc'[b] # "unborn")
             <=> Cardinality(DOMAIN _jobs' \ DOMAIN _jobs) = 1
       /\ \A b \in DOMAIN _jobs' \ DOMAIN _jobs :
             /\ pc[b] = "unborn"
             /\ _jobs'[b] = BuildJob(b, _jobs'[b].issue_number, _jobs'[b].created_at)
       /\ \A b \in DOMAIN _jobs :
             /\ _jobs'[b].build_id = _jobs[b].build_id
             /\ _jobs'[b].issue_number = _jobs[b].issue_number
             /\ _jobs'[b].created_at = _jobs[b].created_at
             /\ IsPrefix(_jobs[b].logs, _jobs'[b].logs)
             /\ IsPrefix(_jobs[b].writes, _jobs'[b].writes)
             /\ get_job(b)' = <<_jobs'[b]>>]_vars

\* C29 witness: a second job was inserted after the first one had ended.
C29_Witness ==
    \E j, k \in DOMAIN _jobs :
        /\ _jobs[j].status \in Terminal
        /\ _jobs[k].created_at > _jobs[j].created_at
        /\ _jobs[k].status = "queued"
        /\ Len(_jobs[j].logs) > 0

\* the pull requests created on the remote for job j: by the managed pull
\* request call (the second managed call) and by the direct one
PullRequestsCreated(j) ==
    (IF Len(responses[j]) >= 2 /\ responses[j][2].effect THEN 1 ELSE 0)
    + (IF Has(calls[j], "POST pulls") /\ pc[j] = "done" /\ raised[j] = None
       THEN 1 ELSE 0)

IsResult(e) == e.type = "result"
IsError(e) == e.type = "error"

\* C31: in every state in which a job is terminal, the last entry of its log
\* is of type result when the status is completed and of type error when it
\* is failed; a log holds at most one result entry and at most one error
\* entry, and such an entry is the last of the log, in terminal states and in
\* all others.
C31_FinalEntry ==
    \A j \in DOMAIN _jobs :
        LET logs == _jobs[j].logs
        IN  /\ _jobs[j].status = "completed" =>
                 logs # << >> /\ logs[Len(logs)].type = "result"
            /\ _jobs[j].status = "failed" =>
                 logs # << >> /\ logs[Len(logs)].type = "error"
            /\ Len(SelectSeq(logs, IsResult)) <= 1
            /\ Len(SelectSeq(logs, IsError)) <= 1
            /\ \A i \in DOMAIN logs :
                 (IsResult(logs[i]) \/ IsError(logs[i])) =>
                     i = Len(logs) /\ _jobs[j].status \in Terminal

\* C31 witness: one job completed by the fallback and one job failed by an
\* exception, each with its final entry after other entries.
C31_Witness ==
    \E j, k \in DOMAIN _jobs :
        /\ _jobs[j].status = "completed"
        /\ Attempts(j) = <<"_push_via_composio", "_push_via_github_api">>
        /\ _jobs[k].status = "failed"
        /\ raised[k] # None
        /\ Len(_jobs[k].logs) > 1

\* C32: a job ends with the error 'Agent made no file changes' only if its
\* agent changed no file of the working copy: a job whose agent added,
\* modified or deleted a file, a file that is binary or deleted included,
\* does not end with that error.
C32_NoChangesOnlyIfUntouched ==
    \A j \in DOMAIN _jobs :
        _jobs[j].error = NoChanges => wrote[j] = {}

====
